---- MODULE Spec2Model ----
(***************************************************************************)
(* The Region memory protocol of contracts/assemblyscript-poc              *)
(* (contract/src/cosmwasm.ts): a reference-counted guest heap, the Region  *)
(* records that describe buffers across the host/guest boundary, and the   *)
(* helpers built on them (log, canonicalize, logAndCrash).                 *)
(*                                                                         *)
(* The guest heap is a finite array of cells.  A cell is free or holds one *)
(* of three kinds of object: an ArrayBuffer ("buffer", its bytes in data), *)
(* a Region record ("region", offset and len) or a Uint8Array ("view",     *)
(* offset = the ArrayBuffer it wraps, len = its byteLength).  Every object *)
(* carries the retain count rc of the AssemblyScript runtime header.       *)
(***************************************************************************)
EXTENDS Integers, Sequences, FiniteSets, TLC

VARIABLES heap, fault, guestVars, guestPtrs, hostPtrs, borrowed, logged,
          crashed, calls, last, prev

vars == <<heap, fault, guestVars, guestPtrs, hostPtrs, borrowed, logged,
          crashed, calls, last, prev>>

\* ---------------------------------------------------------------- bounds
\* Cells of the guest heap.
MaxObjs == 7
\* Calls made on one module instance.
MaxCalls == 3
\* Largest size passed to allocate and longest caller-made byte sequence.
MaxSize == 2
\* Largest line and column number handed to logAndCrash.
MaxLine == 10

\* ------------------------------------------------------ program constants
CanonicalLength == 50

Addrs == 1..MaxObjs
Sides == {"guest", "host"}
\* What uninitialised memory may hold (allocate does not zero it).
JunkBytes == {0, 170}
\* The byte sequences callers build: the first bytes of "hi!hi!...".
SampleByte(i) == IF i % 3 = 1 THEN 104 ELSE IF i % 3 = 2 THEN 105 ELSE 33
Sizes == {0, MaxSize}
Inputs == {[i \in 1..n |-> SampleByte(i)] : n \in Sizes}
\* The texts callers log and the addresses they canonicalize.
Texts == {"", "hi"}
Humans == {"cosmos1"}
\* What the host does in canonicalize_address: it fails with a negative code,
\* or it writes nothing, a few bytes or the whole output buffer, with or
\* without recording the written length in the output Region, and returns 0
\* or the number of bytes written.
HostBytes(n) == [i \in 1..n |-> 7]
HostReplies ==
  {[written |-> <<>>, setLen |-> FALSE, code |-> c] : c \in {-10, -1}}
  \cup {[written |-> HostBytes(n), setLen |-> b, code |-> 0] :
           n \in {0, MaxSize, CanonicalLength}, b \in BOOLEAN}
  \cup {[written |-> HostBytes(MaxSize), setLen |-> FALSE, code |-> MaxSize]}
\* Optional strings: <<>> is null, <<s>> is the string s.
Messages == {<<>>, <<"boom">>}
FileNames == {<<>>, <<"file.ts">>}
\* (line, column) pairs.
Positions == {<<10, 3>>, <<3, MaxLine>>}

\* ------------------------------------------------------------------ text
\* Printable ASCII without the double quote (34), the backslash (92) and the
\* grave accent (96), in code order: AsciiLow starts at code 35, AsciiMid at
\* code 93 and AsciiHigh at code 97.
AsciiLow == "#$%&'()*+,-./0123456789:;<=>?@ABCDEFGHIJKLMNOPQRSTUVWXYZ["
AsciiMid == "]^_"
AsciiHigh == "abcdefghijklmnopqrstuvwxyz{|}~"

IndexIn(table, c) == CHOOSE i \in 1..Len(table) : SubSeq(table, i, i) = c
Has(table, c) == \E i \in 1..Len(table) : SubSeq(table, i, i) = c

\* The double quote.
Quote == "\""

CodeOf(c) == IF c = " " THEN 32
             ELSE IF c = "!" THEN 33
             ELSE IF c = Quote THEN 34
             ELSE IF Has(AsciiLow, c) THEN 34 + IndexIn(AsciiLow, c)
             ELSE IF Has(AsciiMid, c) THEN 92 + IndexIn(AsciiMid, c)
             ELSE 96 + IndexIn(AsciiHigh, c)

\* Encoding.toUtf8 on the ASCII subset: one byte per character.
CharsOf(table) == {SubSeq(table, i, i) : i \in 1..Len(table)}
Chars == {" ", "!", Quote} \cup CharsOf(AsciiLow) \cup CharsOf(AsciiMid)
           \cup CharsOf(AsciiHigh)
AsciiCode == [c \in Chars |-> CodeOf(c)]
toUtf8(text) == [i \in 1..Len(text) |-> AsciiCode[SubSeq(text, i, i)]]

Digit(d) == SubSeq("0123456789", d + 1, d + 1)

RECURSIVE NatToString(_)
NatToString(n) == IF n < 10 THEN Digit(n)
                  ELSE NatToString(n \div 10) \o Digit(n % 10)

\* i32 / u32 toString(): decimal, with a leading minus sign when negative.
IntToString(n) == IF n < 0 THEN "-" \o NatToString(0 - n) ELSE NatToString(n)

\* ------------------------------------------------------------------ heap
FreeCell == [kind |-> "free", rc |-> 0, data |-> <<>>, offset |-> 0, len |-> 0]

Live(h) == {a \in Addrs : h[a].kind # "free"}
FreeCount(h) == Cardinality(Addrs \ Live(h))
NextFree(h) == CHOOSE a \in Addrs \ Live(h) : \A b \in Addrs \ Live(h) : a <= b

\* The state threaded through one call: the heap, the value returned by the
\* last step, the objects freed so far by this call (in order), whether a
\* release hit a freed object or a retain count of zero, the texts handed to
\* log and the bytes env.log received, the message of a thrown Error and
\* whether the module has trapped.
Mem(h) == [heap |-> h, ret |-> 0, freed |-> <<>>, fault |-> FALSE,
           logArgs |-> <<>>, hostLog |-> <<>>, err |-> "", trapped |-> FALSE]

\* __alloc: a fresh object with retain count 0.
new(m, cell) ==
  LET a == NextFree(m.heap) IN [m EXCEPT !.heap[a] = cell, !.ret = a]

\* __retain
retain(m, p) ==
  IF m.heap[p].kind = "free" THEN [m EXCEPT !.fault = TRUE]
  ELSE [m EXCEPT !.heap[p].rc = @ + 1]

\* The runtime's decrement of an object without managed fields: the last
\* reference frees the block; a count of zero underflows.
decrement(m, p) ==
  IF m.heap[p].kind = "free" THEN [m EXCEPT !.fault = TRUE]
  ELSE IF m.heap[p].rc = 1
       THEN [m EXCEPT !.heap[p] = FreeCell, !.freed = Append(@, p)]
  ELSE IF m.heap[p].rc <= 0
       THEN [m EXCEPT !.heap[p].rc = @ - 1, !.fault = TRUE]
  ELSE [m EXCEPT !.heap[p].rc = @ - 1]

\* __release: freeing a Uint8Array also releases the ArrayBuffer it holds.
release(m, p) ==
  IF m.heap[p].kind = "view" /\ m.heap[p].rc = 1
  THEN decrement(decrement(m, p), m.heap[p].offset)
  ELSE decrement(m, p)

BufferCell(bytes) ==
  [kind |-> "buffer", rc |-> 0, data |-> bytes, offset |-> 0, len |-> 0]
RegionCell(offset, len) ==
  [kind |-> "region", rc |-> 0, data |-> <<>>, offset |-> offset, len |-> len]
ViewCell(buffer, len) ==
  [kind |-> "view", rc |-> 0, data |-> <<>>, offset |-> buffer, len |-> len]

\* A read that falls outside the bytes of a live buffer.
Outside == -1

\* The len bytes read at address p: the first len bytes of the buffer there.
\* (Callers that keep to the protocol never read outside a live buffer.)
BytesAt(h, p, len) ==
  [i \in 1..len |-> IF p \in Addrs /\ i <= Len(h[p].data) THEN h[p].data[i]
                    ELSE Outside]
\* The bytes a Uint8Array shows.
ViewBytes(h, v) == BytesAt(h, h[v].offset, h[v].len)
\* The bytes a Region describes.
RegionBytes(h, r) == BytesAt(h, h[r].offset, h[r].len)

\* Uint8Array.wrap(buffer, 0, length): a new Uint8Array over the same
\* ArrayBuffer (no copy); it holds a reference to the buffer and is itself
\* handed to the caller holding one reference.
wrap_noRetain(m, buffer, length) ==
  LET m1 == new(m, ViewCell(buffer, length)) IN retain(m1, m1.ret)

wrap(m, buffer, length) ==
  LET m1 == new(m, ViewCell(buffer, length))
  IN retain(retain(m1, buffer), m1.ret)

\* A language-level Uint8Array with the given content: its own ArrayBuffer
\* (held by the array) and the array (held by the caller's variable).
newBytes(m, bytes) ==
  LET m1 == new(m, BufferCell(bytes))
      m2 == new(m1, ViewCell(m1.ret, Len(bytes)))
  IN retain(retain(m2, m1.ret), m2.ret)

getDataPtr(m, data) == m.heap[data].offset

\* ------------------------------------------------------------ cosmwasm.ts
allocate_noBufferRetain(m, size, junk) ==
  LET m1 == new(m, BufferCell([i \in 1..size |-> junk]))
      m3 == new(m1, RegionCell(m1.ret, size))
  IN [retain(m3, m3.ret) EXCEPT !.ret = m3.ret]

allocate(m, size, junk) ==
  LET m1 == new(m, BufferCell([i \in 1..size |-> junk]))
      dataPtr == m1.ret
      m2 == retain(m1, dataPtr)
      m3 == new(m2, RegionCell(dataPtr, size))
      regionPtr == m3.ret
  IN [retain(m3, regionPtr) EXCEPT !.ret = regionPtr]

deallocate_releasesRegionTwice(m, regionPtr) ==
  LET dataPtr == m.heap[regionPtr].offset
  IN release(release(release(m, regionPtr), regionPtr), dataPtr)

deallocate_leakBuffer(m, regionPtr) == release(m, regionPtr)

deallocate(m, regionPtr) ==
  LET dataPtr == m.heap[regionPtr].offset
  IN release(release(m, regionPtr), dataPtr)

readRegion_noRetain(m, regionPtr) ==
  wrap_noRetain(m, m.heap[regionPtr].offset, m.heap[regionPtr].len)

readRegion(m, regionPtr) ==
  wrap(m, m.heap[regionPtr].offset, m.heap[regionPtr].len)

releaseOwnership_noDataRetain(m, data) ==
  LET m1 == new(m, RegionCell(getDataPtr(m, data), m.heap[data].len))
  IN [retain(m1, m1.ret) EXCEPT !.ret = m1.ret]

releaseOwnership_noRegionRetain(m, data) ==
  LET dataPtr == getDataPtr(m, data)
      m1 == new(m, RegionCell(dataPtr, m.heap[data].len))
  IN [retain(m1, dataPtr) EXCEPT !.ret = m1.ret]

releaseOwnership(m, data) ==
  LET dataPtr == getDataPtr(m, data)
      m1 == new(m, RegionCell(dataPtr, m.heap[data].len))
      regionPtr == m1.ret
  IN [retain(retain(m1, dataPtr), regionPtr) EXCEPT !.ret = regionPtr]

keepOwnership_retains(m, data) ==
  LET m1 == new(m, RegionCell(getDataPtr(m, data), m.heap[data].len))
  IN [retain(m1, getDataPtr(m, data)) EXCEPT !.ret = m1.ret]

keepOwnership(m, data) ==
  new(m, RegionCell(getDataPtr(m, data), m.heap[data].len))

takeOwnership_noDeallocate(m, regionPtr) == readRegion(m, regionPtr)

takeOwnership(m, regionPtr) ==
  LET m1 == readRegion(m, regionPtr)
      out == m1.ret
  IN [deallocate(m1, regionPtr) EXCEPT !.ret = out]

\* env.log: the host reads the bytes the Region describes; it frees nothing.
env_log(m, regionPtr) ==
  [m EXCEPT !.hostLog = Append(@, RegionBytes(m.heap, regionPtr))]

log_releasesOwnership(m, text) ==
  LET m1 == newBytes([m EXCEPT !.logArgs = Append(@, text)], toUtf8(text))
      m2 == releaseOwnership(m1, m1.ret)
  IN release(env_log(m2, m2.ret), m1.ret)

log(m, text) ==
  LET m1 == newBytes([m EXCEPT !.logArgs = Append(@, text)], toUtf8(text))
      data == m1.ret
      m2 == keepOwnership(m1, data)
      m3 == env_log(m2, m2.ret)
  IN release(m3, data)   \* data goes out of scope

\* env.canonicalize_address: the host reads the input Region, writes `written`
\* at the start of the output buffer (and, when setLen, records the written
\* length in the output Region) and returns `code`.
env_canonicalize_address(m, inputPtr, outputPtr, written, setLen, code) ==
  LET buf == m.heap[outputPtr].offset
      old == m.heap[buf].data
      m1 == [m EXCEPT !.heap[buf].data =
                        written \o SubSeq(old, Len(written) + 1, Len(old))]
      m2 == IF setLen THEN [m1 EXCEPT !.heap[outputPtr].len = Len(written)]
            ELSE m1
  IN [m2 EXCEPT !.ret = code]

\* The message of the Error canonicalize throws.
canonicalizeError(returnCode) ==
  "Call to env.canonicalize_address failed with return code "
    \o IntToString(returnCode)

failed_orZero(returnCode) == returnCode <= 0

\* returnCode < 0
failed(returnCode) == returnCode < 0

\* throw aborts the module: AssemblyScript has no unwinding, so nothing that
\* is live at the throw is released.
canonicalize(m, human, junk, written, setLen, code) ==
  LET m1 == newBytes(m, toUtf8(human))
      humanEncoded == m1.ret
      m2 == allocate(m1, CanonicalLength, junk)
      resultPtr == m2.ret
      m3 == keepOwnership(m2, humanEncoded)
      m4 == env_canonicalize_address(m3, m3.ret, resultPtr, written, setLen, code)
      returnCode == m4.ret
      m5 == readRegion(m4, resultPtr)
      canonical == m5.ret
      m6 == deallocate(m5, resultPtr)
  IN IF failed(returnCode)
     THEN [m4 EXCEPT !.err = canonicalizeError(returnCode), !.trapped = TRUE,
                     !.ret = 0]
     ELSE [release(m6, humanEncoded) EXCEPT !.ret = canonical]

\* message || "unset": null and the empty string are falsy.
orUnset(s) == IF s = <<>> \/ s = <<"">> THEN "unset" ELSE s[1]

logAndCrashText(message, fileName, lineNumber, columnNumber) ==
  "Aborted with message '" \o orUnset(message) \o " (in '"
    \o orUnset(fileName) \o "', line " \o IntToString(lineNumber)
    \o ", column " \o IntToString(columnNumber) \o ")"

logAndCrash_returns(m, message, fileName, lineNumber, columnNumber) ==
  log(m, logAndCrashText(message, fileName, lineNumber, columnNumber))

logAndCrash(m, message, fileName, lineNumber, columnNumber) ==
  LET msg == logAndCrashText(message, fileName, lineNumber, columnNumber)
  IN [log(m, msg) EXCEPT !.trapped = TRUE]   \* unreachable()

\* Base64.encode: the standard alphabet, three bytes to four characters, the
\* last group padded with "=".
Base64Alphabet ==
  "ABCDEFGHIJKLMNOPQRSTUVWXYZabcdefghijklmnopqrstuvwxyz0123456789+/"
Base64Char(n) == SubSeq(Base64Alphabet, n + 1, n + 1)

RECURSIVE Base64Encode(_)
Base64Encode(bytes) ==
  IF Len(bytes) = 0 THEN ""
  ELSE IF Len(bytes) = 1
    THEN Base64Char(bytes[1] \div 4) \o Base64Char((bytes[1] % 4) * 16) \o "=="
  ELSE IF Len(bytes) = 2
    THEN Base64Char(bytes[1] \div 4)
           \o Base64Char((bytes[1] % 4) * 16 + bytes[2] \div 16)
           \o Base64Char((bytes[2] % 16) * 4) \o "="
  ELSE Base64Char(bytes[1] \div 4)
         \o Base64Char((bytes[1] % 4) * 16 + bytes[2] \div 16)
         \o Base64Char((bytes[2] % 16) * 4 + bytes[3] \div 64)
         \o Base64Char(bytes[3] % 64)
         \o Base64Encode(SubSeq(bytes, 4, Len(bytes)))

\* JSONEncoder: the text written so far and, for every open object, whether
\* its next key is its first.  Keys and values here (a fixed key, base64
\* text) hold no character that JSON escapes.
NewEncoder == [text |-> "", first |-> <<>>]
writeString(e, str) == [e EXCEPT !.text = @ \o Quote \o str \o Quote]
writeKey(e, name) ==
  LET depth == Len(e.first)
      e1 == IF depth = 0 THEN e
            ELSE IF e.first[depth] THEN [e EXCEPT !.first[depth] = FALSE]
            ELSE [e EXCEPT !.text = @ \o ","]
  IN IF name = <<>> THEN e1
     ELSE [writeString(e1, name[1]) EXCEPT !.text = @ \o ":"]
pushObject(e, name) ==
  [writeKey(e, name) EXCEPT !.text = @ \o "{", !.first = Append(@, TRUE)]
setString(e, name, value) == writeString(writeKey(e, <<name>>), value)
popObject(e) ==
  [e EXCEPT !.text = @ \o "}", !.first = SubSeq(@, 1, Len(@) - 1)]
\* serialize: the text as a new Uint8Array of its UTF-8 bytes.
serialize(m, e) == newBytes(m, toUtf8(e.text))

wrapOk_noPop(m, data) ==
  serialize(m, setString(pushObject(NewEncoder, <<>>), "ok",
                         Base64Encode(ViewBytes(m.heap, data))))

wrapOk(m, data) ==
  LET encoder == NewEncoder
      e1 == pushObject(encoder, <<>>)
      e2 == setString(e1, "ok", Base64Encode(ViewBytes(m.heap, data)))
      e3 == popObject(e2)
  IN serialize(m, e3)

\* ------------------------------------------------------------ the callers
\* The record of a call: what was called, by which side, its argument and
\* result, and the heap it started from.
NoCall == [op |-> "none", side |-> "none", arg |-> 0, size |-> 0, ret |-> 0,
           args |-> <<>>,
           inb |-> <<>>, out |-> <<>>, written |-> <<>>, code |-> 0,
           err |-> "", logArgs |-> <<>>, hostLog |-> <<>>, freed |-> <<>>,
           pre |-> [a \in Addrs |-> FreeCell]]

Range(f) == {f[i] : i \in DOMAIN f}

\* The record of the call that took heap to m.
Called(op, side, arg, m) ==
  [NoCall EXCEPT !.op = op, !.side = side, !.arg = arg, !.ret = m.ret,
                 !.err = m.err, !.logArgs = m.logArgs, !.hostLog = m.hostLog,
                 !.freed = m.freed, !.pre = heap]

\* Every call ends the same way: the heap, the fault flag, the host's log and
\* the trap are taken from m; a borrowed Region whose buffer was freed is a
\* pointer the guest may not use again.
Finish(m, rec) ==
  /\ calls < MaxCalls
  /\ calls' = calls + 1
  /\ heap' = m.heap
  /\ fault' = (fault \/ m.fault)
  /\ logged' = logged \o m.hostLog
  /\ crashed' = m.trapped
  /\ last' = rec
  /\ prev' = last

StillValid(m, ptrs) == {r \in ptrs : m.heap[r].offset \notin Range(m.freed)}

Init ==
  /\ heap = [a \in Addrs |-> FreeCell]
  /\ fault = FALSE
  /\ guestVars = {}
  /\ guestPtrs = {}
  /\ hostPtrs = {}
  /\ borrowed = {}
  /\ logged = <<>>
  /\ crashed = FALSE
  /\ calls = 0
  /\ last = NoCall
  /\ prev = NoCall

\* allocate, called by the host (to pass data in) or by guest code.
Allocate(side, size, junk) ==
  /\ ~crashed
  /\ FreeCount(heap) >= 2
  /\ LET m == allocate(Mem(heap), size, junk)
     IN /\ Finish(m, [Called("allocate", side, 0, m) EXCEPT !.size = size])
        /\ guestPtrs' = IF side = "guest" THEN guestPtrs \cup {m.ret}
                         ELSE guestPtrs
        /\ hostPtrs' = IF side = "host" THEN hostPtrs \cup {m.ret}
                        ELSE hostPtrs
        /\ borrowed' = StillValid(m, borrowed)
  /\ UNCHANGED guestVars

\* deallocate, called once by the side that holds the pointer.
Deallocate(side, regionPtr) ==
  /\ ~crashed
  /\ regionPtr \in (IF side = "guest" THEN guestPtrs ELSE hostPtrs)
  /\ LET m == deallocate(Mem(heap), regionPtr)
     IN /\ Finish(m, Called("deallocate", side, regionPtr, m))
        /\ borrowed' = StillValid(m, borrowed)
  /\ guestPtrs' = guestPtrs \ {regionPtr}
  /\ hostPtrs' = hostPtrs \ {regionPtr}
  /\ UNCHANGED guestVars

\* Guest code builds a Uint8Array and keeps it in a variable.
NewBytes(bytes) ==
  /\ ~crashed
  /\ FreeCount(heap) >= 2
  /\ LET m == newBytes(Mem(heap), bytes)
     IN /\ Finish(m, [Called("newBytes", "guest", 0, m) EXCEPT !.inb = bytes])
        /\ guestVars' = guestVars \cup {m.ret}
        /\ borrowed' = StillValid(m, borrowed)
  /\ UNCHANGED <<guestPtrs, hostPtrs>>

\* A guest variable holding a Uint8Array goes out of scope.
Drop(data) ==
  /\ ~crashed
  /\ data \in guestVars
  /\ LET m == release(Mem(heap), data)
     IN /\ Finish(m, Called("drop", "guest", data, m))
        /\ borrowed' = StillValid(m, borrowed)
  /\ guestVars' = guestVars \ {data}
  /\ UNCHANGED <<guestPtrs, hostPtrs>>

\* releaseOwnership: the guest hands the returned pointer to the host.
ReleaseOwnership(data) ==
  /\ ~crashed
  /\ data \in guestVars
  /\ FreeCount(heap) >= 1
  /\ LET m == releaseOwnership(Mem(heap), data)
     IN /\ Finish(m, [Called("releaseOwnership", "guest", data, m)
                        EXCEPT !.inb = ViewBytes(heap, data)])
        /\ hostPtrs' = hostPtrs \cup {m.ret}
        /\ borrowed' = StillValid(m, borrowed)
  /\ UNCHANGED <<guestVars, guestPtrs>>

\* keepOwnership: the guest lends the returned pointer for one call.
KeepOwnership(data) ==
  /\ ~crashed
  /\ data \in guestVars
  /\ FreeCount(heap) >= 1
  /\ LET m == keepOwnership(Mem(heap), data)
     IN /\ Finish(m, [Called("keepOwnership", "guest", data, m)
                        EXCEPT !.inb = ViewBytes(heap, data)])
        /\ borrowed' = StillValid(m, borrowed) \cup {m.ret}
  /\ UNCHANGED <<guestVars, guestPtrs, hostPtrs>>

\* readRegion on any Region pointer the guest may use.
ReadRegion(regionPtr) ==
  /\ ~crashed
  /\ regionPtr \in guestPtrs \cup hostPtrs \cup borrowed
  /\ FreeCount(heap) >= 1
  /\ LET m == readRegion(Mem(heap), regionPtr)
     IN /\ Finish(m, [Called("readRegion", "guest", regionPtr, m)
                        EXCEPT !.out = ViewBytes(m.heap, m.ret)])
        /\ guestVars' = guestVars \cup {m.ret}
        /\ borrowed' = StillValid(m, borrowed)
  /\ UNCHANGED <<guestPtrs, hostPtrs>>

\* takeOwnership of a pointer that carries ownership: one the host passes in
\* or one the guest got from allocate.
TakeOwnership(regionPtr) ==
  /\ ~crashed
  /\ regionPtr \in guestPtrs \cup hostPtrs
  /\ FreeCount(heap) >= 1
  /\ LET m == takeOwnership(Mem(heap), regionPtr)
     IN /\ Finish(m, [Called("takeOwnership", "guest", regionPtr, m)
                        EXCEPT !.inb = RegionBytes(heap, regionPtr),
                               !.out = ViewBytes(m.heap, m.ret)])
        /\ guestVars' = guestVars \cup {m.ret}
        /\ borrowed' = StillValid(m, borrowed)
  /\ guestPtrs' = guestPtrs \ {regionPtr}
  /\ hostPtrs' = hostPtrs \ {regionPtr}

Log(text) ==
  /\ ~crashed
  /\ FreeCount(heap) >= 3
  /\ LET m == log(Mem(heap), text)
     IN /\ Finish(m, Called("log", "guest", 0, m))
        /\ borrowed' = StillValid(m, borrowed)
  /\ UNCHANGED <<guestVars, guestPtrs, hostPtrs>>

Canonicalize(human, junk, written, setLen, code) ==
  /\ ~crashed
  /\ FreeCount(heap) >= 6
  /\ LET m == canonicalize(Mem(heap), human, junk, written, setLen, code)
     IN /\ Finish(m, [Called("canonicalize", "guest", 0, m)
                        EXCEPT !.written = written, !.code = code,
                               !.out = IF m.trapped THEN <<>>
                                       ELSE ViewBytes(m.heap, m.ret)])
        /\ guestVars' = IF m.trapped THEN guestVars ELSE guestVars \cup {m.ret}
        /\ borrowed' = StillValid(m, borrowed)
  /\ UNCHANGED <<guestPtrs, hostPtrs>>

LogAndCrash(message, fileName, lineNumber, columnNumber) ==
  /\ ~crashed
  /\ FreeCount(heap) >= 3
  /\ LET m == logAndCrash(Mem(heap), message, fileName, lineNumber, columnNumber)
     IN /\ Finish(m, [Called("logAndCrash", "guest", 0, m)
                        EXCEPT !.args = <<message, fileName, lineNumber,
                                          columnNumber>>])
        /\ borrowed' = StillValid(m, borrowed)
  /\ UNCHANGED <<guestVars, guestPtrs, hostPtrs>>

\* wrapOk on bytes the guest holds; the guest keeps the result.
WrapOk(data) ==
  /\ ~crashed
  /\ data \in guestVars
  /\ FreeCount(heap) >= 2
  /\ LET m == wrapOk(Mem(heap), data)
     IN /\ Finish(m, [Called("wrapOk", "guest", data, m)
                        EXCEPT !.inb = ViewBytes(heap, data),
                               !.out = ViewBytes(m.heap, m.ret)])
        /\ guestVars' = guestVars \cup {m.ret}
        /\ borrowed' = StillValid(m, borrowed)
  /\ UNCHANGED <<guestPtrs, hostPtrs>>

Next ==
  \/ \E side \in Sides, size \in Sizes, junk \in JunkBytes :
        Allocate(side, size, junk)
  \/ \E side \in Sides, regionPtr \in Addrs : Deallocate(side, regionPtr)
  \/ \E bytes \in Inputs : NewBytes(bytes)
  \/ \E data \in Addrs : Drop(data)
  \/ \E data \in Addrs : ReleaseOwnership(data)
  \/ \E data \in Addrs : KeepOwnership(data)
  \/ \E regionPtr \in Addrs : ReadRegion(regionPtr)
  \/ \E regionPtr \in Addrs : TakeOwnership(regionPtr)
  \/ \E text \in Texts : Log(text)
  \/ \E human \in Humans, junk \in JunkBytes, reply \in HostReplies :
        Canonicalize(human, junk, reply.written, reply.setLen, reply.code)
  \/ \E message \in Messages, fileName \in FileNames, pos \in Positions :
        LogAndCrash(message, fileName, pos[1], pos[2])
  \/ \E data \in Addrs : WrapOk(data)

Spec == Init /\ [][Next]_vars

\* ------------------------------------------------------------- the claims
\* The last call is `second` applied to the pointer the call before it,
\* `first`, returned.
Chained(first, second) ==
  /\ prev.op = first
  /\ last.op = second
  /\ last.arg = prev.ret

NoNegativeCount(h) == \A a \in Addrs : h[a].rc >= 0

\* C1: allocate(n) followed by one deallocate of the returned pointer frees
\* the Region record and the buffer exactly once each, drives no retain count
\* below zero, frees nothing twice, and leaves the heap as it was before
\* allocate.
C1_AllocateDeallocateBalanced ==
  Chained("allocate", "deallocate") =>
    /\ last.freed = <<prev.ret, last.pre[prev.ret].offset>>
    /\ ~fault
    /\ NoNegativeCount(heap) /\ NoNegativeCount(last.pre)
    /\ heap = prev.pre
    /\ Live(heap) = Live(prev.pre)

C1_Witness ==
  /\ Chained("allocate", "deallocate")
  /\ prev.size = MaxSize
  /\ Len(last.freed) = 2

\* C2: takeOwnership(releaseOwnership(b)) returns bytes equal to b, and the
\* Region record that releaseOwnership returned is no longer live afterwards:
\* it has been freed and no side holds its pointer.
C2_ReleaseTakeRoundTrip ==
  Chained("releaseOwnership", "takeOwnership") =>
    /\ last.out = prev.inb
    /\ last.out = ViewBytes(prev.pre, prev.arg)
    /\ heap[prev.ret].kind = "free"
    /\ prev.ret \in Range(last.freed)
    /\ prev.ret \notin guestPtrs \cup hostPtrs \cup borrowed
    /\ ~fault

C2_Witness ==
  /\ Chained("releaseOwnership", "takeOwnership")
  /\ Len(last.out) = MaxSize
  /\ heap[prev.ret].kind = "free"

\* C3 as stated: readRegion(keepOwnership(b)) returns bytes equal to b and
\* every object that was live before the two calls, the buffer included, has
\* the retain count it had before them.
C3_Original ==
  Chained("keepOwnership", "readRegion") =>
    /\ last.out = prev.inb
    /\ \A a \in Live(prev.pre) : heap[a].rc = prev.pre[a].rc

\* C3 amended: readRegion(keepOwnership(b)) returns bytes equal to b; neither
\* call retains or releases anything of its own: every object that was live
\* before is unchanged, except that the buffer's retain count is higher by
\* the one reference the returned view holds, and dropping that view restores
\* it.  The Region record the pair leaves behind has retain count 0.
C3_KeepReadRoundTrip ==
  Chained("keepOwnership", "readRegion") =>
    LET buffer == prev.pre[prev.arg].offset
    IN /\ last.out = prev.inb
       /\ last.out = ViewBytes(prev.pre, prev.arg)
       /\ \A a \in Live(prev.pre) \ {buffer} : heap[a] = prev.pre[a]
       /\ heap[buffer] = [prev.pre[buffer] EXCEPT !.rc = @ + 1]
       /\ heap[last.ret] = [ViewCell(buffer, Len(prev.inb)) EXCEPT !.rc = 1]
       /\ release(Mem(heap), last.ret).heap[buffer] = prev.pre[buffer]
       /\ heap[prev.ret] = RegionCell(buffer, Len(prev.inb))
       /\ ~fault

C3_Witness ==
  /\ Chained("keepOwnership", "readRegion")
  /\ Len(last.out) = MaxSize
  /\ heap[prev.pre[prev.arg].offset].rc = prev.pre[prev.pre[prev.arg].offset].rc + 1

\* Who is responsible for freeing an object.  The host is, when it holds a
\* pointer that carries ownership of the Region or of the Region's buffer.
\* The guest is, when it holds such a pointer or a Region it kept ownership
\* of, or when no host pointer covers the object and a guest variable reaches
\* it.
Covers(ptrs, a) == \E r \in ptrs : a = r \/ a = heap[r].offset
HostResponsible(a) == Covers(hostPtrs, a)
GuestResponsible(a) ==
  \/ Covers(guestPtrs, a)
  \/ a \in borrowed
  \/ /\ ~Covers(hostPtrs, a)
     /\ \E v \in guestVars : heap[v].offset = a

\* C4: while the module runs, every live buffer and every live Region record
\* has exactly one side responsible for freeing it: never none, never both.
C4_OneResponsibleSide ==
  ~crashed =>
    \A a \in Live(heap) :
      heap[a].kind \in {"buffer", "region"} =>
        (GuestResponsible(a) /\ ~HostResponsible(a))
          \/ (HostResponsible(a) /\ ~GuestResponsible(a))

\* C5: canonicalize fails exactly when the host returns a negative code, and
\* the error it fails with carries that code in decimal; with a code of 0 or
\* more it returns a byte array to its caller.
C5_CanonicalizeFailsOnNegative ==
  last.op = "canonicalize" =>
    /\ (last.err # "") <=> (last.code < 0)
    /\ last.code = -1 =>
         last.err = "Call to env.canonicalize_address failed with return code -1"
    /\ last.code = -10 =>
         last.err = "Call to env.canonicalize_address failed with return code -10"
    /\ last.code >= 0 =>
         /\ ~crashed
         /\ last.ret \in guestVars
         /\ heap[last.ret].kind = "view"

C5_Witness ==
  /\ last.op = "canonicalize"
  /\ last.code = -1
  /\ last.err # ""

\* C6: when the host writes N <= 50 bytes into the output Region and returns
\* 0, canonicalize returns exactly those N bytes and nothing after them.
C6_ReturnsExactlyWrittenBytes ==
  (last.op = "canonicalize" /\ last.code = 0
     /\ Len(last.written) <= CanonicalLength) =>
    last.out = last.written

\* The text the spec gives for logAndCrash: the message and the file name
\* each between apostrophes, "unset" for a null one.
ClaimedAbortText(message, fileName, lineNumber, columnNumber) ==
  "Aborted with message '"
    \o (IF message = <<>> THEN "unset" ELSE message[1])
    \o "' (in '"
    \o (IF fileName = <<>> THEN "unset" ELSE fileName[1])
    \o "', line " \o IntToString(lineNumber)
    \o ", column " \o IntToString(columnNumber) \o ")"

\* C7: the text logAndCrash hands to log is exactly
\* Aborted with message '<message>' (in '<fileName>', line <l>, column <c>),
\* with unset for a null message or file name; for ("boom", "file.ts", 10, 3)
\* it is Aborted with message 'boom' (in 'file.ts', line 10, column 3).
C7_AbortTextExact ==
  last.op = "logAndCrash" =>
    /\ last.logArgs =
         <<ClaimedAbortText(last.args[1], last.args[2], last.args[3],
                            last.args[4])>>
    /\ last.args = <<(<<"boom">>), (<<"file.ts">>), 10, 3>> =>
         last.logArgs =
           <<"Aborted with message 'boom' (in 'file.ts', line 10, column 3)">>

\* C8: no call is made on a module that has terminated, and every call of
\* logAndCrash hands the host's log exactly one text, the one it built, and
\* leaves the module terminated.
C8_LogThenTerminate ==
  [][/\ ~crashed
     /\ last'.op = "logAndCrash" =>
          /\ crashed'
          /\ Len(last'.logArgs) = 1
          /\ Len(last'.hostLog) = 1
          /\ logged' = Append(logged, toUtf8(last'.logArgs[1]))]_vars

C8_Witness ==
  /\ last.op = "logAndCrash"
  /\ crashed
  /\ Len(logged) = 2

\* C9 as stated: takeOwnership returns the Region's bytes, destroys the
\* Region and its buffer, and the bytes it returns live in a new buffer of
\* their own, not in the destroyed one.
C9_Original ==
  last.op = "takeOwnership" =>
    LET buffer == last.pre[last.arg].offset
    IN /\ last.out = last.inb
       /\ heap[last.arg].kind = "free"
       /\ buffer \in Range(last.freed)
       /\ heap[last.ret].offset # buffer
       /\ heap[heap[last.ret].offset].kind = "buffer"

\* C9 amended: takeOwnership reads the Region before anything is destroyed
\* and releases the Region and its buffer once each through deallocate; that
\* destroys the Region record and only it.  The bytes are returned as a view
\* of the same buffer, which the view's reference keeps alive with the retain
\* count it had before the call: the returned bytes equal the Region's first
\* len bytes and do not lie in freed memory.
C9_TakeOwnershipKeepsBytes ==
  last.op = "takeOwnership" =>
    LET buffer == last.pre[last.arg].offset
    IN /\ last.out = last.inb
       /\ last.out = RegionBytes(last.pre, last.arg)
       /\ last.freed = <<last.arg>>
       /\ heap[last.arg].kind = "free"
       /\ heap[last.ret] = [ViewCell(buffer, last.pre[last.arg].len)
                              EXCEPT !.rc = 1]
       /\ heap[buffer] = last.pre[buffer]
       /\ heap[buffer].kind = "buffer" /\ heap[buffer].rc >= 1
       /\ ViewBytes(heap, last.ret) = last.inb
       /\ ~fault

C9_Witness ==
  /\ last.op = "takeOwnership"
  /\ Len(last.out) = MaxSize
  /\ last.freed = <<last.arg>>
  /\ heap[heap[last.ret].offset].rc = 1

\* C10: allocate(size) returns a pointer to a Region whose offset is the
\* address of the new buffer and whose len is size; the buffer holds size
\* bytes; the two are new objects, each retained exactly once, and nothing
\* else in the heap changes.
C10_AllocateAddsTwo ==
  last.op = "allocate" =>
    LET regionPtr == last.ret
        dataPtr == heap[regionPtr].offset
    IN /\ heap[regionPtr] = [RegionCell(dataPtr, last.size) EXCEPT !.rc = 1]
       /\ heap[dataPtr].kind = "buffer"
       /\ Len(heap[dataPtr].data) = last.size
       /\ heap[dataPtr].rc = 1
       /\ regionPtr # dataPtr
       /\ {regionPtr, dataPtr} \cap Live(last.pre) = {}
       /\ Live(heap) = Live(last.pre) \cup {regionPtr, dataPtr}
       /\ \A a \in Live(last.pre) : heap[a] = last.pre[a]

C10_Witness ==
  /\ last.op = "allocate"
  /\ last.size = MaxSize
  /\ Live(last.pre) # {}
  /\ Cardinality(Live(heap)) = Cardinality(Live(last.pre)) + 2

\* C11: log(text) calls env.log exactly once, with a Region whose offset is
\* the address of the buffer holding the UTF-8 bytes of text and whose len is
\* their number; nothing is handed over to the host and no object that was
\* live before the call changes its retain count; the buffer stays the
\* guest's to free, and the guest frees it, with the array that held it, when
\* log returns.
C11_LogKeepsOwnership ==
  last.op = "log" =>
    LET text == last.logArgs[1]
        made == Live(heap) \ Live(last.pre)
    IN /\ Len(last.logArgs) = 1
       /\ Len(last.hostLog) = 1
       /\ Len(last.hostLog[1]) = Len(text)
       /\ text = "hi" => last.hostLog[1] = <<104, 105>>
       /\ text = "" => last.hostLog[1] = <<>>
       /\ Len(last.freed) = 2
       /\ last.pre[last.freed[1]].kind = "free"
       /\ last.pre[last.freed[2]].kind = "free"
       /\ \A r \in made :
            /\ heap[r] = RegionCell(last.freed[2], Len(text))
            /\ ~HostResponsible(r)
       /\ Cardinality(made) = 1
       /\ ~HostResponsible(last.freed[2])
       /\ \A a \in Live(last.pre) : heap[a] = last.pre[a]
       /\ ~fault

C11_Witness ==
  /\ last.op = "log"
  /\ last.logArgs = <<"hi">>
  /\ last.hostLog = <<(<<104, 105>>)>>
  /\ Live(last.pre) # {}

\* What the spec gives for wrapOk: the bytes of {"ok":"<B>"} with <B> the
\* base64 text of the input.
ClaimedEnvelope(b64) == toUtf8("{\"ok\":\"" \o b64 \o "\"}")

\* C12: wrapOk(bytes) returns the UTF-8 bytes of {"ok":"<B>"} without any
\* whitespace, <B> being the padded standard base64 text of bytes: for "hi"
\* exactly {"ok":"aGk="}, for no bytes {"ok":""}, for "hi!" {"ok":"aGkh"}.
C12_WrapOkEnvelope ==
  last.op = "wrapOk" =>
    /\ last.out = ClaimedEnvelope(Base64Encode(last.inb))
    /\ Len(last.out) = 9 + 4 * ((Len(last.inb) + 2) \div 3)
    /\ 32 \notin Range(last.out)
    /\ last.inb = <<104, 105>> =>
         last.out = <<123, 34, 111, 107, 34, 58, 34, 97, 71, 107, 61, 34, 125>>
    /\ last.inb = <<>> =>
         last.out = <<123, 34, 111, 107, 34, 58, 34, 34, 125>>
    /\ last.inb = <<104, 105, 33>> =>
         last.out = <<123, 34, 111, 107, 34, 58, 34, 97, 71, 107, 104, 34, 125>>

C12_Witness ==
  /\ last.op = "wrapOk"
  /\ last.inb = <<104, 105>>
  /\ last.out = <<123, 34, 111, 107, 34, 58, 34, 97, 71, 107, 61, 34, 125>>

\* C13: releaseOwnership(bytes) raises the retain count of the buffer by one
\* and leaves the new Region record with a retain count of one, touching
\* nothing else, so that one deallocate of the returned pointer, or one
\* takeOwnership followed by dropping its result, restores the heap;
\* keepOwnership(bytes) builds a Region with the same offset and len and
\* raises no retain count: the Region's own count stays zero.
C13_ReleaseRetainsKeepDoesNot ==
  LET data == last.arg
      buffer == last.pre[data].offset
      regionPtr == last.ret
      undone == deallocate(Mem(heap), regionPtr)
      taken == takeOwnership(Mem(heap), regionPtr)
  IN /\ last.op = "releaseOwnership" =>
          /\ last.pre[regionPtr].kind = "free"
          /\ heap[regionPtr] =
               [RegionCell(buffer, last.pre[data].len) EXCEPT !.rc = 1]
          /\ heap[buffer] = [last.pre[buffer] EXCEPT !.rc = @ + 1]
          /\ \A a \in Live(last.pre) \ {buffer} : heap[a] = last.pre[a]
          /\ Live(heap) = Live(last.pre) \cup {regionPtr}
          /\ undone.heap = last.pre /\ ~undone.fault
          /\ undone.freed = <<regionPtr>>
          /\ FreeCount(heap) >= 1 =>
               /\ release(taken, taken.ret).heap = last.pre
               /\ ~release(taken, taken.ret).fault
     /\ last.op = "keepOwnership" =>
          /\ last.pre[regionPtr].kind = "free"
          /\ heap[regionPtr] = RegionCell(buffer, last.pre[data].len)
          /\ \A a \in Live(last.pre) : heap[a] = last.pre[a]
          /\ Live(heap) = Live(last.pre) \cup {regionPtr}

C13_Witness ==
  /\ prev.op = "releaseOwnership"
  /\ last.op = "keepOwnership"
  /\ last.arg = prev.arg
  /\ heap[prev.ret].rc = 1
  /\ heap[last.ret].rc = 0
  /\ heap[last.ret].offset = heap[prev.ret].offset
  /\ heap[last.ret].len = heap[prev.ret].len
  /\ heap[last.ret].len = MaxSize

\* What readRegion leaves alone whatever the retain counts do: the Region
\* record, every live object other than the buffer, the buffer's content, and
\* the live set apart from the returned view; the view shows exactly len
\* bytes, the first len bytes of the buffer.
ReadRegionFrame ==
  LET regionPtr == last.arg
      data == last.pre[regionPtr].offset
      len == last.pre[regionPtr].len
  IN /\ heap[regionPtr] = last.pre[regionPtr]
     /\ heap[data].data = last.pre[data].data
     /\ heap[data].kind = "buffer"
     /\ \A a \in Live(last.pre) \ {data} : heap[a] = last.pre[a]
     /\ last.pre[last.ret].kind = "free"
     /\ Live(heap) = Live(last.pre) \cup {last.ret}
     /\ heap[last.ret].kind = "view"
     /\ heap[last.ret].offset = data
     /\ heap[last.ret].len = len
     /\ Len(last.out) = len
     /\ last.out = BytesAt(last.pre, data, len)
     /\ Outside \notin Range(last.out)

\* C14 as stated: readRegion changes nothing, the ownership of every object
\* included: every retain count is the same after the call as before.
C14_Original ==
  last.op = "readRegion" =>
    /\ ReadRegionFrame
    /\ \A a \in Live(last.pre) : heap[a].rc = last.pre[a].rc

\* C14: readRegion leaves the Region's offset and len, the buffer's content
\* and the liveness of every object as they were, and returns a view of
\* exactly len bytes equal to the first len bytes of the buffer, also when the
\* buffer is longer; but it does alter ownership: the returned view holds a
\* reference to the buffer, whose retain count is one higher after the call.
C14_ReadRegionRetainsBuffer ==
  last.op = "readRegion" =>
    /\ ReadRegionFrame
    /\ \A a \in Live(last.pre) :
         heap[a].rc = last.pre[a].rc +
                      (IF a = last.pre[last.arg].offset THEN 1 ELSE 0)
    /\ heap[last.ret].rc = 1

C14_Witness ==
  /\ last.op = "readRegion"
  /\ Len(last.pre[last.pre[last.arg].offset].data) > last.pre[last.arg].len
  /\ last.pre[last.arg].len = MaxSize
  /\ Len(last.out) = MaxSize
  /\ heap[last.pre[last.arg].offset].rc
       = last.pre[last.pre[last.arg].offset].rc + 1

\* The objects that came into being during the last call.
NewSince(h) == Live(heap) \ Live(h)
\* The views that hold buffer a.
Holders(a) == {v \in Live(heap) : heap[v].kind = "view" /\ heap[v].offset = a}
\* The output buffer of canonicalize, and the Region record describing it.
IsOutputBuffer(a) ==
  heap[a].kind = "buffer" /\ Len(heap[a].data) = CanonicalLength
IsOutputRegion(a) ==
  heap[a].kind = "region" /\ IsOutputBuffer(heap[a].offset)

\* C15: after canonicalize, whether it returned or failed on a negative code,
\* nothing of the output allocation is left over: the output Region record is
\* gone, and the output buffer is held by nothing but the returned bytes.
C15_OutputReleasedOnEveryExit ==
  last.op = "canonicalize" =>
    \A a \in NewSince(last.pre) :
      /\ ~IsOutputRegion(a)
      /\ IsOutputBuffer(a) =>
           /\ heap[a].rc = Cardinality(Holders(a))
           /\ Holders(a) \subseteq guestVars

\* The same on the exit path that returns: there the claim holds.
C15_ReleasedOnSuccess ==
  (last.op = "canonicalize" /\ last.err = "") =>
    \A a \in NewSince(last.pre) :
      /\ ~IsOutputRegion(a)
      /\ IsOutputBuffer(a) =>
           /\ heap[a].rc = Cardinality(Holders(a))
           /\ Holders(a) = {last.ret}

\* A failed call that leaves the output Region and its buffer allocated, each
\* with a retain count of one and no holder.
C15_LeakOnFailure ==
  /\ last.op = "canonicalize"
  /\ last.code < 0
  /\ crashed
  /\ \E a \in NewSince(last.pre) :
       /\ IsOutputRegion(a)
       /\ heap[a].rc = 1
       /\ heap[heap[a].offset].rc = 1
       /\ Holders(heap[a].offset) = {}

\* C16: log does not grow the live set: after log(text) returns, neither the
\* UTF-8 buffer nor the Region record built by keepOwnership remains, so the
\* live objects are those that were live before the call.
C16_LogLeavesNothingBehind ==
  last.op = "log" => Live(heap) = Live(last.pre)

\* The UTF-8 buffer and the array over it are freed when log returns.
C16_LogFreesItsBytes ==
  last.op = "log" =>
    \A a \in NewSince(last.pre) : heap[a].kind \notin {"buffer", "view"}

\* Two calls of log in a row, each leaving behind one more Region record that
\* nothing holds and nothing will free.
C16_LogLeaksRegions ==
  /\ prev.op = "log"
  /\ last.op = "log"
  /\ Cardinality(NewSince(prev.pre)) = 2
  /\ \A a \in NewSince(prev.pre) :
       /\ heap[a].kind = "region"
       /\ heap[a].rc = 0
       /\ a \notin guestPtrs \cup hostPtrs \cup borrowed

\* The references to buffer a that have been retained and not yet released:
\* one for each array over it and one for each Region record that carries
\* ownership of it.
Retainers(a) ==
  {p \in Live(heap) : /\ heap[p].offset = a
                      /\ \/ heap[p].kind = "view"
                         \/ heap[p].kind = "region" /\ heap[p].rc >= 1}

\* C17: when deallocate and takeOwnership are applied only to pointers that
\* allocate or releaseOwnership returned, each at most once, every release is
\* matched by an earlier retain: no release hits a freed object, no retain
\* count is below zero, no call frees an object twice, every Region record's
\* count is zero or one, and a buffer's count is the number of references
\* retained on it and not yet released.
C17_ReleasesMatchRetains ==
  /\ ~fault
  /\ NoNegativeCount(heap)
  /\ NoNegativeCount(last.pre)
  /\ \A i, j \in DOMAIN last.freed :
       last.freed[i] = last.freed[j] => i = j
  /\ last.op = "deallocate" => Range(last.freed) \subseteq Live(last.pre)
  /\ \A a \in Live(heap) :
       /\ heap[a].kind = "region" => heap[a].rc \in {0, 1}
       /\ heap[a].kind = "buffer" => heap[a].rc = Cardinality(Retainers(a))

C17_Witness ==
  /\ prev.op = "takeOwnership"
  /\ prev.freed = <<prev.arg>>
  /\ last.op = "drop"
  /\ last.arg = prev.ret
  /\ Len(last.freed) = 2
  /\ last.freed[2] = prev.pre[prev.arg].offset
  /\ ~fault

====
